---- MODULE Spec2Model ----
(***************************************************************************)
(* Model of the peer link interception proxy (rocket-intercepter).         *)
(*                                                                         *)
(* One PeerLink between peer1 and peer2 as built by                        *)
(* PeerConnector::connect_peers: two SSL sessions (session s talks to the  *)
(* validator node s), two spawned relay tasks (task d reads session d and  *)
(* writes the other session), and the main task that joins the handles.    *)
(*                                                                         *)
(* Time is kept as the age, in milliseconds, of the values the code        *)
(* compares (Instant::now() differences), advanced by Tick.                *)
(***************************************************************************)
EXTENDS Integers, Sequences, FiniteSets, TLC

(* ---------------------------------------------------------------- bounds *)
\* bytes the two validator nodes send on the link during a run
MaxSent == 3
\* ages saturate after this many ticks (must exceed DelayMs \div TickMs)
MaxAgeTicks == 3
\* tokens a target sends in answer to one upgrade request
MaxResp == 4
\* validator nodes the orchestrator may supply
MaxNodes == 3
\* Packet requests the controller receives
MaxCalls == 2
\* bytes of one peer message: a header byte, then the rest
MsgLen == 2
\* frames the nodes of a network send on all their sessions
MaxMeshSent == 2

(* ------------------------------------------------------ program constants *)
\* peer_connector.rs:145  BytesMut::with_capacity(64 * 1024)
FrameCap == 65536
\* peer_connector.rs:174  delay_execution(start_time, 500)
DelayMs == 500
\* peer_connector.rs:173  if peer_from == 1
DelayedPeer == 1
\* peer_connector.rs:57  vec![0; 4096]
HsReadCap == 4096
\* peer_connector.rs:88  response_code != 101
SwitchingProtocols == 101
\* packet_client.rs:209  base_port_peer: 60000 (the value of self.base_port)
BasePort == 60000
\* the value of each 16-bit half of u32::MAX
U16Max == 65535

\* model granularity of the clock: half the configured delay
TickMs == DelayMs \div 2
AgeCap == MaxAgeTicks * TickMs

\* the two sessions / relay directions of the link; task d reads session d
Dirs == {1, 2}
\* peer numbers handed to connect_peers (peer1, peer2)
peerOf == <<1, 2>>
\* byte values that exercise every branch of the first-byte inspection:
\* 1 = plain, 4 = a version bit under 0xFC, 128 = compression flag 0x80
Bytes == {1, 4, 128}

Other(d) == 3 - d
From(d) == d
To(d) == Other(d)

Min(a, b) == IF a < b THEN a ELSE b
Max(a, b) == IF a > b THEN a ELSE b

\* bytes[0] & 0x80 != 0
IsCompressed(b) == (b \div 128) % 2 = 1
\* bytes[0] & 0xFC != 0
UnknownVersion(b) == ((b % 256) \div 4) # 0

Range(q) == {q[i] : i \in 1..Len(q)}
Take(s, n) == SubSeq(s, 1, n)
Drop(s, n) == SubSeq(s, n + 1, Len(s))

RECURSIVE IsSubseq(_, _)
IsSubseq(a, b) ==
    IF a = <<>> THEN TRUE
    ELSE IF b = <<>> THEN FALSE
    ELSE IF Head(a) = Head(b) THEN IsSubseq(Tail(a), Tail(b))
    ELSE IsSubseq(a, Tail(b))

VARIABLES
    proc,       \* "running" | "aborted": the process (main task)
    sess,       \* sess[s]: "open" | "eof" | "reset": the remote end of session s
    inbox,      \* inbox[s]: bytes node s has sent that no read has returned yet
    sent,       \* bytes the nodes have sent so far
    out,        \* out[s]: frames written to session s by write_all, in order
    lock,       \* lock[s]: 0 = mutex free, d = held by relay task d
    pc,         \* pc[d]: position of relay task d
    buf,        \* buf[d]: the frame task d holds (buf after resize(size))
    readLog,    \* readLog[d]: frames task d has read, in order (history)
    age,        \* age[d]: ms since the read of buf[d] returned (history)
    elapsed,    \* elapsed[d]: ms since start_time = Instant::now()
    sleepLeft,  \* sleepLeft[d]: ms left of tokio::time::sleep
    eofSeen,    \* eofSeen[d]: a read of task d returned 0 (history)
    err,        \* err[d]: how the last frame of task d failed ("none" if not)
    hsPc,       \* position of main inside connect_peers
    hsIdx,      \* which of ssl_stream_1, ssl_stream_2 is being created
    wire,       \* response tokens of the target not yet returned by a read
    tgtOpen,    \* the target has not closed the connection
    tgtSent,    \* tokens the target has sent on this connection
    hbuf,       \* buf of create_ssl_stream
    hsCode,     \* hsCode[s]: status code parsed for stream s, 0 if none
    hsKey,      \* hsKey[s]: Public-Key presented on stream s ("" if none)
    hsRet,      \* hsRet[s]: create_ssl_stream returned stream s
    hsErr,      \* the panic that ended connect_peers ("none" if none)
    hsPort,     \* hsPort[s]: port stream s is connected to (0 if none)
    ctl,        \* "up" | "down": the controller answers / is unreachable
    ctlReqs,    \* Packet requests that have reached the controller
    call,       \* the last send_packet call and its result
    nNodes,     \* network.containers.len()
    mainPc,     \* position of main
    mi,         \* index of container1 in the pair loop
    mj,         \* index of container2 in the pair loop
    links,      \* pairs connect_peers has returned for, in order
    threads,    \* the Vec threads: one record per JoinHandle pushed
    failure,    \* what ended main: "none" | "client" | "handshake" | "join"
    mIn,        \* mIn[x]: frames node x[1][x[2]] has sent on session x, unread
    mOut,       \* mOut[x]: frames written to session x, in order
    mBuf,       \* mBuf[x]: the frame the task reading session x holds, or <<>>
    mSent       \* frames the nodes have sent on all sessions

hsVars == <<hsPc, hsIdx, wire, tgtOpen, tgtSent, hbuf, hsCode, hsKey, hsRet, hsErr,
            hsPort>>
ctlVars == <<ctl, ctlReqs, call>>
topoVars == <<nNodes, mainPc, mi, mj, links, threads, failure>>
meshVars == <<mIn, mOut, mBuf, mSent>>

vars == <<proc, sess, inbox, sent, out, lock, pc, buf, readLog, age, elapsed,
          sleepLeft, eofSeen, err, hsVars, ctlVars, topoVars, meshVars>>

\* the unordered pairs of n nodes
AllPairs(n) == {p \in (1..n) \X (1..n) : p[1] < p[2]}

\* the sessions of a network: <<p, s>> is ssl_stream_s of the pair p, the
\* stream connect_peers opens to node p[s]
MeshSess == AllPairs(MaxNodes) \X Dirs

\* no frame is on any session of the network
MeshIdle ==
    /\ mIn = [x \in MeshSess |-> <<>>]
    /\ mOut = [x \in MeshSess |-> <<>>]
    /\ mBuf = [x \in MeshSess |-> <<>>]
    /\ mSent = 0

envVars == <<sess, inbox, sent>>
timeVars == <<age, elapsed, sleepLeft>>

(* ============================================================ handshake *)
(* The response of a target is a sequence of tokens, each standing for a   *)
(* run of bytes: "S101" and "S200" for the text of a status line with that *)
(* code, "H" for the text of one header "Name: value", "CRLF" for \r\n,    *)
(* "X" for a NUL byte, which no part of a header block admits.             *)
Tokens == {"S101", "S200", "H", "CRLF", "X"}
StatusTokens == {"S101", "S200"}

\* pub_key1, pub_key2 of connect_peers
pubKey == <<"K1", "K2">>

\* buf.windows(4).position(|x| x == b"\r\n\r\n"): the index of the first
\* terminator, counted in tokens before it, or -1 for None
RECURSIVE FindTerminatorFrom(_, _)
FindTerminatorFrom(b, i) ==
    IF i + 1 > Len(b) THEN -1
    ELSE IF b[i] = "CRLF" /\ b[i + 1] = "CRLF" THEN i - 1
    ELSE FindTerminatorFrom(b, i + 1)

FindTerminator(b) == FindTerminatorFrom(b, 1)

\* the tokens of b up to the terminator found at n: &buf[0..n + 4]
HeaderBlock(b, n) == Take(b, n + 2)

\* httparse: skip_empty_lines
RECURSIVE SkipEmptyLines(_)
SkipEmptyLines(b) ==
    IF b # <<>> /\ Head(b) = "CRLF" THEN SkipEmptyLines(Tail(b)) ELSE b

\* the first line of b without its CRLF, and what follows that CRLF
RECURSIVE LineOf(_)
LineOf(b) ==
    IF b = <<>> \/ Head(b) = "CRLF" THEN <<>> ELSE <<Head(b)>> \o LineOf(Tail(b))

AfterLine(b) == Drop(b, Len(LineOf(b)) + 1)

\* httparse: the header lines up to the empty line are each a well-formed
\* "Name: value"
RECURSIVE HeadersOk(_)
HeadersOk(b) ==
    IF b = <<>> \/ Head(b) = "CRLF" THEN TRUE
    ELSE /\ Head(b) = "H"
         /\ "X" \notin Range(LineOf(b))
         /\ HeadersOk(AfterLine(b))

StatusOf(tok) == IF tok = "S101" THEN SwitchingProtocols ELSE 200

\* httparse::Response::parse on a block that ends with the terminator:
\* Partial when nothing follows the leading empty lines, an error unless a
\* status line and well-formed headers follow, else the status code
ParseResponse(block) ==
    LET b == SkipEmptyLines(block) IN
    IF b = <<>> THEN [kind |-> "partial", code |-> 0]
    ELSE IF /\ Head(b) \in StatusTokens
            /\ "X" \notin Range(LineOf(b))
            /\ HeadersOk(AfterLine(b))
         THEN [kind |-> "complete", code |-> StatusOf(Head(b))]
         ELSE [kind |-> "error", code |-> 0]

\* a u32 as its two 16-bit halves <<high, low>>: u32::MAX is beyond the
\* integers TLC computes with
U32(n) == <<n \div (U16Max + 1), n % (U16Max + 1)>>

\* u32::MAX, the port value send_packet refuses
U32Max == <<U16Max, U16Max>>

\* no send_packet call has been made
NoCall == [data |-> <<>>, from |-> U32(0), to |-> U32(0), res |-> "none", req |-> FALSE]

\* the controller and the client while no send_packet call is modelled
CtlIdle ==
    /\ ctl = "up"
    /\ ctlReqs = 0
    /\ call = NoCall

\* main while it handles the one pair of a network of two containers; the
\* two handles of that pair are pc[1] and pc[2]
TopoOnePair(at) ==
    /\ nNodes = 2
    /\ mainPc = at
    /\ mi = 1
    /\ mj = 2
    /\ links = <<>>
    /\ threads = <<>>
    /\ failure = "none"

\* the state in which main enters connect_peers for a pair of containers
HsInit ==
    /\ proc = "running"
    /\ sess = [s \in Dirs |-> "open"]
    /\ inbox = [s \in Dirs |-> <<>>]
    /\ sent = 0
    /\ out = [s \in Dirs |-> <<>>]
    /\ lock = [s \in Dirs |-> 0]
    /\ pc = [d \in Dirs |-> "unspawned"]
    /\ buf = [d \in Dirs |-> <<>>]
    /\ readLog = [d \in Dirs |-> <<>>]
    /\ age = [d \in Dirs |-> 0]
    /\ elapsed = [d \in Dirs |-> 0]
    /\ sleepLeft = [d \in Dirs |-> 0]
    /\ eofSeen = [d \in Dirs |-> FALSE]
    /\ err = [d \in Dirs |-> "none"]
    /\ hsPc = "connect"
    /\ hsIdx = 1
    /\ wire = <<>>
    /\ tgtOpen = TRUE
    /\ tgtSent = 0
    /\ hbuf = <<>>
    /\ hsCode = [s \in Dirs |-> 0]
    /\ hsKey = [s \in Dirs |-> ""]
    /\ hsRet = [s \in Dirs |-> FALSE]
    /\ hsErr = "none"
    /\ hsPort = [s \in Dirs |-> 0]
    /\ CtlIdle
    /\ MeshIdle
    /\ TopoOnePair("pairs")

relayVars == <<sess, inbox, sent, out, lock, buf, readLog, age, elapsed,
               sleepLeft, eofSeen, err>>

\* panic!/expect/unwrap inside create_ssl_stream: it runs on the main task
HsPanic(msg) ==
    /\ hsPc' = "panicked"
    /\ hsErr' = msg
    /\ proc' = "aborted"
    /\ UNCHANGED <<hsIdx, hsRet>>

\* create_ssl_stream returns ssl_stream: connect_peers goes on to the second
\* stream, then to handle_peer_connections
HsReturn ==
    /\ hsRet' = [hsRet EXCEPT ![hsIdx] = TRUE]
    /\ hsPc' = IF hsIdx = 1 THEN "connect" ELSE "spawn"
    /\ hsIdx' = IF hsIdx = 1 THEN 2 ELSE hsIdx
    /\ UNCHANGED <<hsErr, proc>>

\* the port connect_peers passes for stream i: self.base_port + peer
PortFor(i) == BasePort + peerOf[i]

\* the target writes one more token of its response
TargetSend(tok) ==
    /\ hsPc \in {"read", "drain"}
    /\ tgtOpen
    /\ tgtSent < MaxResp
    /\ wire' = Append(wire, tok)
    /\ tgtSent' = tgtSent + 1
    /\ UNCHANGED <<meshVars, proc, pc, relayVars, topoVars, ctlVars, hsPc, hsIdx, tgtOpen, hbuf, hsCode, hsKey, hsPort, hsRet, hsErr>>

\* the target closes the connection
TargetClose ==
    /\ hsPc \in {"read", "drain"}
    /\ tgtOpen
    /\ tgtOpen' = FALSE
    /\ UNCHANGED <<meshVars, proc, pc, relayVars, topoVars, ctlVars, hsPc, hsIdx, wire, tgtSent, hbuf, hsCode, hsKey, hsPort, hsRet, hsErr>>

\* TcpStream::connect(socket_address).await is Ok; a fresh connection
HsConnectOk ==
    /\ hsPc = "connect"
    /\ hsPc' = "tls"
    /\ wire' = <<>>
    /\ tgtOpen' = TRUE
    /\ tgtSent' = 0
    /\ hbuf' = <<>>
    /\ hsPort' = [hsPort EXCEPT ![hsIdx] = PortFor(hsIdx)]
    /\ UNCHANGED <<meshVars, proc, pc, relayVars, topoVars, ctlVars, hsIdx, hsCode, hsKey, hsRet, hsErr>>

\* TcpStream::connect(socket_address).await is Err(e) => panic!("{}", e)
HsConnectErr ==
    /\ hsPc = "connect"
    /\ HsPanic("panic: connect")
    /\ UNCHANGED <<meshVars, pc, relayVars, topoVars, ctlVars, wire, tgtOpen, tgtSent, hbuf, hsCode, hsKey, hsPort>>

\* SslStream::connect(..).await is Ok
HsTlsOk ==
    /\ hsPc = "tls"
    /\ hsPc' = "send"
    /\ UNCHANGED <<meshVars, proc, pc, relayVars, topoVars, ctlVars, hsIdx, wire, tgtOpen, tgtSent, hbuf, hsCode, hsKey, hsPort, hsRet, hsErr>>

\* SslStream::connect(..).await.expect("SSL connection failed")
HsTlsErr ==
    /\ hsPc = "tls"
    /\ HsPanic("panic: SSL connection failed")
    /\ UNCHANGED <<meshVars, pc, relayVars, topoVars, ctlVars, wire, tgtOpen, tgtSent, hbuf, hsCode, hsKey, hsPort>>

\* a connect_peers that presents to each peer that peer's own key
KeyFor_Own(i) == pubKey[i]

\* the key connect_peers passes for stream i: pub_key2 for ssl_stream_1,
\* pub_key1 for ssl_stream_2
KeyFor(i) == pubKey[Other(i)]

\* write_all(format_upgrade_request_content(pub_key_peer)) is Ok
HsSendOk ==
    /\ hsPc = "send"
    /\ hsKey' = [hsKey EXCEPT ![hsIdx] = KeyFor(hsIdx)]
    /\ hsPc' = "read"
    /\ UNCHANGED <<meshVars, proc, pc, relayVars, topoVars, ctlVars, hsIdx, wire, tgtOpen, tgtSent, hbuf, hsCode, hsRet, hsErr,
                   hsPort>>

\* .expect("Could not send XRPL handshake request")
HsSendErr ==
    /\ hsPc = "send"
    /\ HsPanic("panic: Could not send XRPL handshake request")
    /\ UNCHANGED <<meshVars, pc, relayVars, topoVars, ctlVars, wire, tgtOpen, tgtSent, hbuf, hsCode, hsKey, hsPort>>

\* what create_ssl_stream does with the buffer b of its one read:
\*   "return"  no terminator in b, or status 101 and nothing after the block
\*   "panic"   parse error, partial parse, or status 101 and trailing bytes
\*   "drain"   a status other than 101: read_to_end comes next
AfterRead(b) ==
    LET n == FindTerminator(b) IN
    IF n < 0 THEN [to |-> "return", code |-> 0, rest |-> b, msg |-> "none"]
    ELSE LET r == ParseResponse(HeaderBlock(b, n))
             rest == Drop(b, n + 2) IN
         IF r.kind = "error"
         THEN [to |-> "panic", code |-> 0, rest |-> b, msg |-> "panic: Response parse failed"]
         ELSE IF r.kind = "partial"
         THEN [to |-> "panic", code |-> 0, rest |-> b, msg |-> "panic: Invalid headers"]
         ELSE IF r.code # SwitchingProtocols
         THEN [to |-> "drain", code |-> r.code, rest |-> rest, msg |-> "none"]
         ELSE IF rest # <<>>
         THEN [to |-> "panic", code |-> r.code, rest |-> rest,
               msg |-> "panic: Buffer should be empty, are the peer slots full?"]
         ELSE [to |-> "return", code |-> r.code, rest |-> rest, msg |-> "none"]

\* ssl_stream.read(&mut vec).await returned n > 0 tokens, and the code up to
\* the next suspension point
HsRead(n) ==
    /\ hsPc = "read"
    /\ n \in 1..Min(Len(wire), HsReadCap)
    /\ LET a == AfterRead(Take(wire, n)) IN
        /\ wire' = Drop(wire, n)
        /\ hbuf' = a.rest
        /\ hsCode' = [hsCode EXCEPT ![hsIdx] = a.code]
        /\ CASE a.to = "return" -> HsReturn
             [] a.to = "panic" -> HsPanic(a.msg)
             [] a.to = "drain" -> /\ hsPc' = "drain"
                                  /\ UNCHANGED <<proc, hsIdx, hsRet, hsErr>>
    /\ UNCHANGED <<meshVars, pc, relayVars, topoVars, ctlVars, tgtOpen, tgtSent, hsKey, hsPort>>

\* ssl_stream.read(&mut vec).await returned 0: panic!("Socket closed")
HsReadEof ==
    /\ hsPc = "read"
    /\ wire = <<>>
    /\ ~tgtOpen
    /\ HsPanic("panic: Socket closed")
    /\ UNCHANGED <<meshVars, pc, relayVars, topoVars, ctlVars, wire, tgtOpen, tgtSent, hbuf, hsCode, hsKey, hsPort>>

\* ssl_stream.read_to_end(&mut buf.to_vec()).await returns at end of stream;
\* what it read went into a copy of buf; then if !buf.is_empty() { panic! }
HsDrain ==
    /\ hsPc = "drain"
    /\ ~tgtOpen
    /\ wire' = <<>>
    /\ IF hbuf # <<>>
       THEN HsPanic("panic: Buffer should be empty, are the peer slots full?")
       ELSE HsReturn
    /\ UNCHANGED <<meshVars, pc, relayVars, topoVars, ctlVars, tgtOpen, tgtSent, hbuf, hsCode, hsKey, hsPort>>

\* handle_peer_connections: both streams go behind Arc<Mutex<..>> and the
\* two relay tasks are spawned
Spawn ==
    /\ hsPc = "spawn"
    /\ hsPc' = "spawned"
    /\ pc' = [d \in Dirs |-> "lock_from"]
    /\ UNCHANGED <<meshVars, proc, relayVars, topoVars, ctlVars, hsIdx, wire, tgtOpen, tgtSent, hbuf, hsCode, hsKey, hsPort, hsRet, hsErr>>

HsNext ==
    \/ \E tok \in Tokens : TargetSend(tok)
    \/ TargetClose
    \/ HsConnectOk
    \/ HsConnectErr
    \/ HsTlsOk
    \/ HsTlsErr
    \/ HsSendOk
    \/ HsSendErr
    \/ \E n \in 1..MaxResp : HsRead(n)
    \/ HsReadEof
    \/ HsDrain
    \/ Spawn

\* connect_peers for one pair, from the first connect to the spawn
HsSpec == HsInit /\ [][HsNext]_vars

(* ------------------------------------------------------------ relay: Init *)
\* the state handle_peer_connections leaves: both sessions established and
\* wrapped in Arc<Mutex<..>>, both tasks spawned at the top of their loop
Init ==
    /\ proc = "running"
    /\ sess = [s \in Dirs |-> "open"]
    /\ inbox = [s \in Dirs |-> <<>>]
    /\ sent = 0
    /\ out = [s \in Dirs |-> <<>>]
    /\ lock = [s \in Dirs |-> 0]
    /\ pc = [d \in Dirs |-> "lock_from"]
    /\ buf = [d \in Dirs |-> <<>>]
    /\ readLog = [d \in Dirs |-> <<>>]
    /\ age = [d \in Dirs |-> 0]
    /\ elapsed = [d \in Dirs |-> 0]
    /\ sleepLeft = [d \in Dirs |-> 0]
    /\ eofSeen = [d \in Dirs |-> FALSE]
    /\ err = [d \in Dirs |-> "none"]
    /\ hsPc = "spawned"
    /\ hsIdx = 2
    /\ wire = <<>>
    /\ tgtOpen = TRUE
    /\ tgtSent = 0
    /\ hbuf = <<>>
    /\ hsCode = [s \in Dirs |-> SwitchingProtocols]
    /\ hsKey = [s \in Dirs |-> KeyFor(s)]
    /\ hsRet = [s \in Dirs |-> TRUE]
    /\ hsErr = "none"
    /\ hsPort = [s \in Dirs |-> PortFor(s)]
    /\ CtlIdle
    /\ MeshIdle
    /\ TopoOnePair("join")

(* ------------------------------------------------- the validator nodes *)
\* node s sends one more byte on its session
NodeSend(s, b) ==
    /\ proc = "running"
    /\ sess[s] = "open"
    /\ sent < MaxSent
    /\ inbox' = [inbox EXCEPT ![s] = Append(@, b)]
    /\ sent' = sent + 1
    /\ UNCHANGED <<meshVars, hsVars, topoVars, ctlVars, proc, sess, out, lock, pc, buf, readLog, timeVars, eofSeen, err>>

\* node s closes its connection in an orderly way: reads drain, then return 0
NodeClose(s) ==
    /\ proc = "running"
    /\ sess[s] = "open"
    /\ sess' = [sess EXCEPT ![s] = "eof"]
    /\ UNCHANGED <<meshVars, hsVars, topoVars, ctlVars, proc, inbox, sent, out, lock, pc, buf, readLog, timeVars, eofSeen, err>>

\* the connection to node s breaks: reads and writes on it return Err
NodeReset(s) ==
    /\ proc = "running"
    /\ sess[s] = "open"
    /\ sess' = [sess EXCEPT ![s] = "reset"]
    /\ inbox' = [inbox EXCEPT ![s] = <<>>]
    /\ UNCHANGED <<meshVars, hsVars, topoVars, ctlVars, proc, sent, out, lock, pc, buf, readLog, timeVars, eofSeen, err>>

(* ------------------------------------------------------ tokio::sync::Mutex *)
\* a mutex that hands out its guard while another guard is alive
CanLock_NoWait(s) == lock[s] \in {0} \cup Dirs

\* lock().await completes only while no guard of the mutex is alive
CanLock(s) == lock[s] = 0

(* ------------------------------------------------------- handle_message *)
\* from.lock().await
LockFrom(d) ==
    /\ proc = "running"
    /\ pc[d] = "lock_from"
    /\ CanLock(From(d))
    /\ lock' = [lock EXCEPT ![From(d)] = d]
    /\ pc' = [pc EXCEPT ![d] = "read"]
    /\ UNCHANGED <<meshVars, hsVars, topoVars, ctlVars, proc, envVars, out, buf, readLog, timeVars, eofSeen, err>>

\* if peer_from == 1: the directions the fault policy delays
Delayed(d) == peerOf[d] = DelayedPeer

\* where a frame goes once it passed the first-byte inspection
AfterInspect(d) == IF Delayed(d) THEN "delay" ELSE "lock_to"

\* an inspection that also refuses a first byte with bits under 0xFC
Rejects_Version(frame) == IsCompressed(frame[1]) \/ UnknownVersion(frame[1])

\* the first-byte inspection of handle_message
Rejects(frame) == IsCompressed(frame[1])

\* a guard bound to a name, alive until handle_message returns
GuardAfterRead_Kept(d) == d

\* the holder of the source mutex once the read statement has ended: the
\* guard of from.lock().await is a temporary of that statement
GuardAfterRead(d) == 0

\* .read(buf).await returned n > 0 bytes; the guard is dropped at the end of
\* the statement; then the inspection of bytes[0] and start_time = now
ReadData(d, n) ==
    /\ proc = "running"
    /\ pc[d] = "read"
    /\ sess[From(d)] # "reset"
    /\ n \in 1..Min(Len(inbox[From(d)]), FrameCap)
    /\ LET frame == Take(inbox[From(d)], n) IN
        /\ inbox' = [inbox EXCEPT ![From(d)] = Drop(@, n)]
        /\ readLog' = [readLog EXCEPT ![d] = Append(@, frame)]
        /\ lock' = [lock EXCEPT ![From(d)] = GuardAfterRead(d)]
        /\ IF Rejects(frame)
           THEN /\ pc' = [pc EXCEPT ![d] = "panicked"]
                /\ err' = [err EXCEPT ![d] = "panic: Received compressed message"]
                /\ buf' = [buf EXCEPT ![d] = <<>>]
           ELSE /\ pc' = [pc EXCEPT ![d] = AfterInspect(d)]
                /\ err' = err
                /\ buf' = [buf EXCEPT ![d] = frame]
    /\ age' = [age EXCEPT ![d] = 0]
    /\ elapsed' = [elapsed EXCEPT ![d] = 0]
    /\ UNCHANGED <<meshVars, hsVars, topoVars, ctlVars, proc, sess, sent, out, sleepLeft, eofSeen>>

\* where the task goes when handle_message returns on size == 0: the caller
\* is loop { handle_message(..).await }
AfterEof == "lock_from"

\* .read(buf).await returned 0: error!(..); return
ReadEof(d) ==
    /\ proc = "running"
    /\ pc[d] = "read"
    /\ sess[From(d)] = "eof"
    /\ inbox[From(d)] = <<>>
    /\ lock' = [lock EXCEPT ![From(d)] = 0]
    /\ eofSeen' = [eofSeen EXCEPT ![d] = TRUE]
    /\ pc' = [pc EXCEPT ![d] = AfterEof]
    /\ UNCHANGED <<meshVars, hsVars, topoVars, ctlVars, proc, envVars, out, buf, readLog, timeVars, err>>

\* .read(buf).await returned Err: .expect("Could not read from SSL stream")
ReadErr(d) ==
    /\ proc = "running"
    /\ pc[d] = "read"
    /\ sess[From(d)] = "reset"
    /\ lock' = [lock EXCEPT ![From(d)] = 0]
    /\ pc' = [pc EXCEPT ![d] = "panicked"]
    /\ err' = [err EXCEPT ![d] = "panic: Could not read from SSL stream"]
    /\ UNCHANGED <<meshVars, hsVars, topoVars, ctlVars, proc, envVars, out, buf, readLog, timeVars, eofSeen>>

\* a delay computation that never asks for a sleep
DelayDuration_NoWait(ms, el) == [ok |-> el <= ms, dur |-> 0]

\* Duration::from_millis(ms) - elapsed_time: Sub for Duration panics when the
\* result would be negative
DelayDuration(ms, el) ==
    IF el > ms THEN [ok |-> FALSE, dur |-> 0] ELSE [ok |-> TRUE, dur |-> ms - el]

\* delay_execution(start_time, 500) up to its first suspension point
Delay(d) ==
    /\ proc = "running"
    /\ pc[d] = "delay"
    /\ LET dd == DelayDuration(DelayMs, elapsed[d]) IN
        IF ~dd.ok
        THEN /\ pc' = [pc EXCEPT ![d] = "panicked"]
             /\ err' = [err EXCEPT ![d] = "panic: overflow when subtracting durations"]
             /\ buf' = [buf EXCEPT ![d] = <<>>]
             /\ sleepLeft' = sleepLeft
             /\ age' = [age EXCEPT ![d] = 0]
        ELSE /\ pc' = [pc EXCEPT ![d] = IF dd.dur > 0 THEN "sleep" ELSE "lock_to"]
             /\ sleepLeft' = [sleepLeft EXCEPT ![d] = dd.dur]
             /\ UNCHANGED <<err, buf, age>>
    /\ elapsed' = [elapsed EXCEPT ![d] = 0]
    /\ UNCHANGED <<meshVars, hsVars, topoVars, ctlVars, proc, envVars, out, lock, readLog, eofSeen>>

\* tokio::time::sleep(delay_duration).await completes, not before its deadline
Wake(d) ==
    /\ proc = "running"
    /\ pc[d] = "sleep"
    /\ sleepLeft[d] = 0
    /\ pc' = [pc EXCEPT ![d] = "lock_to"]
    /\ UNCHANGED <<meshVars, hsVars, topoVars, ctlVars, proc, envVars, out, lock, buf, readLog, timeVars, eofSeen, err>>

\* to.lock().await
LockTo(d) ==
    /\ proc = "running"
    /\ pc[d] = "lock_to"
    /\ CanLock(To(d))
    /\ lock' = [lock EXCEPT ![To(d)] = d]
    /\ pc' = [pc EXCEPT ![d] = "write"]
    /\ UNCHANGED <<meshVars, hsVars, topoVars, ctlVars, proc, envVars, out, buf, readLog, timeVars, eofSeen, err>>

\* a write of the buffer without buf.resize(size, 0): zero fill follows
Written_NoResize(b) == b \o <<0>>

\* the bytes write_all(&buf) puts on the destination session
Written(b) == b

\* a destination that receives the newest frame ahead of the older ones
Deliver_Reordered(q, f) == <<f>> \o q

\* the destination session's byte stream after one more write_all
Deliver(q, f) == Append(q, f)

\* .write_all(&buf).await returned Ok; the guard is dropped; handle_message
\* returns and the loop calls it again
WriteOk(d) ==
    /\ proc = "running"
    /\ pc[d] = "write"
    /\ sess[To(d)] # "reset"
    /\ out' = [out EXCEPT ![To(d)] = Deliver(@, Written(buf[d]))]
    /\ lock' = [lock EXCEPT ![To(d)] = 0]
    /\ pc' = [pc EXCEPT ![d] = "lock_from"]
    /\ buf' = [buf EXCEPT ![d] = <<>>]
    /\ age' = [age EXCEPT ![d] = 0]
    /\ elapsed' = [elapsed EXCEPT ![d] = 0]
    /\ UNCHANGED <<meshVars, hsVars, topoVars, ctlVars, proc, envVars, readLog, sleepLeft, eofSeen, err>>

\* .write_all(&buf).await returned Err: .expect("Could not write to SSL stream")
WriteErr(d) ==
    /\ proc = "running"
    /\ pc[d] = "write"
    /\ sess[To(d)] # "open"
    /\ lock' = [lock EXCEPT ![To(d)] = 0]
    /\ pc' = [pc EXCEPT ![d] = "panicked"]
    /\ err' = [err EXCEPT ![d] = "panic: Could not write to SSL stream"]
    /\ buf' = [buf EXCEPT ![d] = <<>>]
    /\ age' = [age EXCEPT ![d] = 0]
    /\ UNCHANGED <<meshVars, hsVars, topoVars, ctlVars, proc, envVars, out, readLog, elapsed, sleepLeft, eofSeen>>

(* ------------------------------------------------------------------ time *)
HoldsFrame(d) == pc[d] \in {"delay", "sleep", "lock_to", "write"}

\* the clock readings the code of task d still depends on: the age of its
\* frame where a delay is due, start_time until delay_execution has read it
Timed(d) == Delayed(d) /\ HoldsFrame(d)
Timing(d) == Delayed(d) /\ pc[d] = "delay"

\* TickMs of wall-clock time pass
Tick ==
    /\ proc = "running"
    /\ \E d \in Dirs : Timed(d)
    /\ age' = [d \in Dirs |-> IF Timed(d) THEN Min(age[d] + TickMs, AgeCap) ELSE age[d]]
    /\ elapsed' = [d \in Dirs |-> IF Timing(d) THEN Min(elapsed[d] + TickMs, AgeCap) ELSE elapsed[d]]
    /\ sleepLeft' = [d \in Dirs |-> Max(sleepLeft[d] - TickMs, 0)]
    /\ UNCHANGED <<meshVars, hsVars, topoVars, ctlVars, proc, envVars, out, lock, pc, buf, readLog, eofSeen, err>>

(* ------------------------------------------------------------------ main *)
\* the handle main awaits first: threads.push(t1) precedes threads.push(t2),
\* and a relay task never returns, so the join loop never gets past it
FirstJoined == 1

\* t.await.expect("Thread failed") on a task that panicked: main panics and
\* the process ends, taking every other task with it
MainJoin ==
    /\ proc = "running"
    /\ pc[FirstJoined] = "panicked"
    /\ proc' = "aborted"
    /\ UNCHANGED <<meshVars, hsVars, topoVars, ctlVars, envVars, out, lock, pc, buf, readLog, timeVars, eofSeen, err>>

Env ==
    \/ \E s \in Dirs, b \in Bytes : NodeSend(s, b)
    \/ \E s \in Dirs : NodeClose(s)
    \/ \E s \in Dirs : NodeReset(s)

Relay(d) ==
    \/ LockFrom(d)
    \/ \E n \in 1..MaxSent : ReadData(d, n)
    \/ ReadEof(d)
    \/ ReadErr(d)
    \/ Delay(d)
    \/ Wake(d)
    \/ LockTo(d)
    \/ WriteOk(d)
    \/ WriteErr(d)

Next ==
    \/ Env
    \/ \E d \in Dirs : Relay(d)
    \/ Tick
    \/ MainJoin

Spec == Init /\ [][Next]_vars

\* the scheduling the tokio runtime gives: a task that can make a step makes
\* it, main is polled when the handle it awaits is ready, time passes; the
\* validator nodes are under no obligation to send, close or fail
FairSpec ==
    /\ Spec
    /\ \A d \in Dirs : WF_vars(Relay(d))
    /\ WF_vars(MainJoin)
    /\ WF_vars(Tick)

(* ================================================================ claims *)
Stopped(d) == pc[d] = "panicked" \/ proc = "aborted"

\* the frames C1 speaks of: first byte with bit 0x80 and the bits 0xFC clear
PlainFrame(f) == Len(f) \in 1..FrameCap /\ ~IsCompressed(f[1]) /\ ~UnknownVersion(f[1])

\* C1: round trip. Every frame a direction has written to its destination
\* session is, byte for byte and in length, the frame it read from its source
\* session: the i-th write of a direction carries exactly its i-th read when
\* that read is a plain frame, and nothing is written that was not read.
C1_RoundTrip ==
    \A d \in Dirs :
        /\ Len(out[To(d)]) <= Len(readLog[d])
        /\ \A i \in 1..Len(out[To(d)]) :
              PlainFrame(readLog[d][i]) => out[To(d)][i] = readLog[d][i]

\* C1 witness: a plain frame of two bytes has been read and written
C1_Witness ==
    \E d \in Dirs :
        /\ out[To(d)] # <<>>
        /\ PlainFrame(readLog[d][1])
        /\ Len(readLog[d][1]) = 2

\* frames of direction d that were read and are not yet written
InFlight(d) == Len(readLog[d]) - Len(out[To(d)])

\* C2: per-direction ordering. The frames written to the destination of a
\* direction appear in the order in which that direction read them, whatever
\* the other direction and the delay do, and a direction has at most one frame
\* between read and write at any time.
C2_Ordering ==
    \A d \in Dirs :
        /\ IsSubseq(out[To(d)], readLog[d])
        /\ InFlight(d) \in {0, 1}

\* C2 witness: one direction has delivered two different frames while the
\* opposite direction has delivered one as well
C2_Witness ==
    \E d \in Dirs :
        /\ Len(out[To(d)]) >= 2
        /\ out[To(d)][1] # out[To(d)][2]
        /\ out[From(d)] # <<>>

\* relay task d is inside a read or a write on the stream of session s
Accessing(d, s) ==
    \/ pc[d] = "read" /\ From(d) = s
    \/ pc[d] = "write" /\ To(d) = s

\* C10: session mutual exclusion. At most one relay task is inside a read or
\* a write on the stream of a session, and it is the holder of that
\* session's mutex; a write never overlaps a read on the same stream.
C10_MutualExclusion ==
    \A s \in Dirs :
        /\ Cardinality({d \in Dirs : Accessing(d, s)}) <= 1
        /\ \A d \in Dirs : Accessing(d, s) => lock[s] = d

\* C10 witness: a task wants to write a session while the opposite task
\* holds that session's mutex inside its read
C10_Witness ==
    \E d \in Dirs :
        /\ pc[d] = "lock_to"
        /\ pc[Other(d)] = "read"
        /\ lock[To(d)] = Other(d)

\* C8: delay lower bound. Whenever a direction the fault policy delays
\* completes a write, at least DelayMs have passed since the read of that
\* frame returned.
C8_DelayLowerBound ==
    [][\A d \in Dirs :
          (Delayed(d) /\ Len(out'[To(d)]) > Len(out[To(d)])) => age[d] >= DelayMs]_vars

\* C8 witness: the delayed direction has delivered a frame
C8_Witness == \E d \in Dirs : Delayed(d) /\ out[To(d)] # <<>>

\* C9 as claimed: a delay step that runs when the time since start_time has
\* reached or passed DelayMs neither sleeps nor fails; the frame goes on to
\* the write.
C9_NoOverWaiting ==
    [][\A d \in Dirs :
          (pc[d] = "delay" /\ elapsed[d] >= DelayMs /\ pc'[d] # "delay")
              => pc'[d] = "lock_to"]_vars

\* C4 as claimed: once a read of a direction has returned zero bytes, that
\* direction's loop has ended and never locks or reads its source again.
C4_OrderlyTeardown ==
    \A d \in Dirs : eofSeen[d] => pc[d] \notin {"lock_from", "read"}

\* a direction has met the end of its link: a zero-length read, or a read
\* error, write error or rejected frame that ended its task
LinkFailed(d) == eofSeen[d] \/ pc[d] = "panicked"

\* C5 as claimed: once either direction has met the end of its link, both
\* directions of the link eventually stop.
C5_PairedTeardown ==
    (\E d \in Dirs : LinkFailed(d)) ~> (\A d \in Dirs : Stopped(d))

\* direction d is about to write a frame to an open destination session
WantsWrite(d) == pc[d] = "lock_to" /\ sess[To(d)] = "open" /\ proc = "running"

\* C3 as claimed: a frame a direction has read for an open destination is
\* eventually written there, whether or not the destination's node ever sends.
C3_Independence ==
    \A d \in Dirs : WantsWrite(d) ~> ~WantsWrite(d)

\* a compressed frame has been read by direction d
CompressedSeen(d) == \E i \in 1..Len(readLog[d]) : Rejects(readLog[d][i])

\* C7 as claimed: a frame whose first byte has bit 0x80 set is never written,
\* and what it produces is an error value of that direction: no task is
\* aborted by it and the process keeps running.
C7_CompressionRejection ==
    \A d \in Dirs :
        CompressedSeen(d) =>
            /\ \A i \in 1..Len(out[To(d)]) : ~Rejects(out[To(d)][i])
            /\ err[d] \in {"none", "UnsupportedMessageError"}
            /\ proc = "running"

\* C6 as claimed: once the header block of a stream parsed with a status code
\* other than 101, create_ssl_stream does not return that stream, no relay
\* task of the link is spawned, and the only failure connect_peers ends with
\* is HandshakeProtocolError::Rejected.
C6_HandshakeRejection ==
    \A s \in Dirs :
        (hsCode[s] # 0 /\ hsCode[s] # SwitchingProtocols) =>
            /\ ~hsRet[s]
            /\ \A d \in Dirs : pc[d] = "unspawned"
            /\ hsErr \in {"none", "HandshakeProtocolError::Rejected"}

\* C11 as claimed: every frame written to a destination was submitted to the
\* arbitration client before its write: the controller has received at least
\* as many Packet requests as frames have been written.
C11_ArbitrationHonoured ==
    Len(out[1]) + Len(out[2]) <= ctlReqs

(* ================================================================= main *)
(* main.rs: the client for the controller, the loop over the pairs of      *)
(* containers, the join loop. connect_peers is taken by its two outcomes   *)
(* (HsSpec: it spawns two tasks, or it panics on the main task) and a      *)
(* relay task by its two states (Spec: it runs, or it has panicked).       *)

\* a start of the inner loop that pairs a container with itself
InnerStart_Self(i) == i

\* &network.containers[(i + 1)..network.containers.len()]
InnerStart(i) == i + 1

\* the two JoinHandles connect_peers returns for the pair (i, j)
HandlesOf(i, j) ==
    << [link |-> <<i, j>>, dir |-> 1, st |-> "running"],
       [link |-> <<i, j>>, dir |-> 2, st |-> "running"] >>

TopoInit ==
    /\ proc = "running"
    /\ sess = [s \in Dirs |-> "open"]
    /\ inbox = [s \in Dirs |-> <<>>]
    /\ sent = 0
    /\ out = [s \in Dirs |-> <<>>]
    /\ lock = [s \in Dirs |-> 0]
    /\ pc = [d \in Dirs |-> "unspawned"]
    /\ buf = [d \in Dirs |-> <<>>]
    /\ readLog = [d \in Dirs |-> <<>>]
    /\ age = [d \in Dirs |-> 0]
    /\ elapsed = [d \in Dirs |-> 0]
    /\ sleepLeft = [d \in Dirs |-> 0]
    /\ eofSeen = [d \in Dirs |-> FALSE]
    /\ err = [d \in Dirs |-> "none"]
    /\ hsPc = "connect"
    /\ hsIdx = 1
    /\ wire = <<>>
    /\ tgtOpen = TRUE
    /\ tgtSent = 0
    /\ hbuf = <<>>
    /\ hsCode = [s \in Dirs |-> 0]
    /\ hsKey = [s \in Dirs |-> ""]
    /\ hsRet = [s \in Dirs |-> FALSE]
    /\ hsErr = "none"
    /\ hsPort = [s \in Dirs |-> 0]
    /\ ctl \in {"up", "down"}
    /\ ctlReqs = 0
    /\ call = NoCall
    /\ nNodes \in 0..MaxNodes
    /\ mainPc = "client"
    /\ mi = 1
    /\ mj = InnerStart(1)
    /\ links = <<>>
    /\ threads = <<>>
    /\ failure = "none"
    /\ MeshIdle

\* packet_client::PacketClient::new().await is Ok(client)
ClientNewOk ==
    /\ proc = "running"
    /\ mainPc = "client"
    /\ ctl = "up"
    /\ mainPc' = "pairs"
    /\ UNCHANGED <<meshVars, proc, pc, relayVars, hsVars, ctlVars, nNodes, mi, mj, links, threads, failure>>

\* PacketClient::new().await is Err(e): eprintln!(..); std::process::exit(1)
ClientNewErr ==
    /\ proc = "running"
    /\ mainPc = "client"
    /\ ctl = "down"
    /\ mainPc' = "exit"
    /\ proc' = "exited"
    /\ failure' = "client"
    /\ UNCHANGED <<meshVars, pc, relayVars, hsVars, ctlVars, nNodes, mi, mj, links, threads>>

\* main is inside the inner loop with container1 = mi, container2 = mj
AtPair == proc = "running" /\ mainPc = "pairs" /\ mi <= nNodes /\ mj <= nNodes

\* connect_peers(..).await returns (t1, t2); threads.push(t1); threads.push(t2)
ConnectOk ==
    /\ AtPair
    /\ links' = Append(links, <<mi, mj>>)
    /\ threads' = threads \o HandlesOf(mi, mj)
    /\ mj' = mj + 1
    /\ UNCHANGED <<meshVars, proc, pc, relayVars, hsVars, ctlVars, nNodes, mainPc, mi, failure>>

\* connect_peers(..).await panics inside create_ssl_stream
ConnectPanic ==
    /\ AtPair
    /\ mainPc' = "panicked"
    /\ proc' = "aborted"
    /\ failure' = "handshake"
    /\ UNCHANGED <<meshVars, pc, relayVars, hsVars, ctlVars, nNodes, mi, mj, links, threads>>

\* the inner loop is exhausted: the outer loop takes the next container1
NextContainer ==
    /\ proc = "running"
    /\ mainPc = "pairs"
    /\ mi <= nNodes
    /\ mj > nNodes
    /\ mi' = mi + 1
    /\ mj' = InnerStart(mi + 1)
    /\ UNCHANGED <<meshVars, proc, pc, relayVars, hsVars, ctlVars, nNodes, mainPc, links, threads, failure>>

\* the outer loop is exhausted: main goes on to the join loop
PairsDone ==
    /\ proc = "running"
    /\ mainPc = "pairs"
    /\ mi > nNodes
    /\ mainPc' = "join"
    /\ UNCHANGED <<meshVars, proc, pc, relayVars, hsVars, ctlVars, nNodes, mi, mj, links, threads, failure>>

\* the relay task behind handle k panics (read or write error, compressed
\* frame, duration underflow)
TaskPanic(k) ==
    /\ proc = "running"
    /\ k \in 1..Len(threads)
    /\ threads[k].st = "running"
    /\ threads' = [threads EXCEPT ![k].st = "panicked"]
    /\ UNCHANGED <<meshVars, proc, pc, relayVars, hsVars, ctlVars, nNodes, mainPc, mi, mj, links, failure>>

\* for t in threads { t.await.expect("Thread failed") }: a relay task never
\* returns, so main stays on the first handle until that task has panicked
JoinPanic ==
    /\ proc = "running"
    /\ mainPc = "join"
    /\ threads # <<>>
    /\ threads[FirstJoined].st = "panicked"
    /\ mainPc' = "panicked"
    /\ proc' = "aborted"
    /\ failure' = "join"
    /\ UNCHANGED <<meshVars, pc, relayVars, hsVars, ctlVars, nNodes, mi, mj, links, threads>>

\* no handle to join: network.stop_network().await; Ok(())
JoinDone ==
    /\ proc = "running"
    /\ mainPc = "join"
    /\ threads = <<>>
    /\ mainPc' = "exit"
    /\ proc' = "exited"
    /\ UNCHANGED <<meshVars, pc, relayVars, hsVars, ctlVars, nNodes, mi, mj, links, threads, failure>>

TopoNext ==
    \/ ClientNewOk
    \/ ClientNewErr
    \/ ConnectOk
    \/ ConnectPanic
    \/ NextContainer
    \/ PairsDone
    \/ \E k \in 1..(MaxNodes * (MaxNodes - 1)) : TaskPanic(k)
    \/ JoinPanic
    \/ JoinDone

\* main from PacketClient::new to the end of the process
TopoSpec == TopoInit /\ [][TopoNext]_vars

\* handles pushed for the pair p with direction dir
HandlesFor(p, dir) == {k \in 1..Len(threads) : threads[k].link = p /\ threads[k].dir = dir}

\* C14: topology coverage. No link is ever a self-pair or made twice, and
\* when the pair loop has ended without a failed handshake there is exactly
\* one link for every unordered pair of the N nodes: N*(N-1)/2 links and
\* N*(N-1) relay tasks, one per direction of each link.
C14_TopologyCoverage ==
    /\ \A k \in 1..Len(links) : links[k] \in AllPairs(nNodes)
    /\ \A k, l \in 1..Len(links) : links[k] = links[l] => k = l
    /\ Len(threads) = 2 * Len(links)
    /\ (mi > nNodes /\ failure # "handshake") =>
          /\ Range(links) = AllPairs(nNodes)
          /\ 2 * Len(links) = nNodes * (nNodes - 1)
          /\ Len(threads) = nNodes * (nNodes - 1)
          /\ \A p \in AllPairs(nNodes), dir \in Dirs : Cardinality(HandlesFor(p, dir)) = 1

\* C14 witness: three nodes, the pair loop has ended, three links, six tasks
C14_Witness ==
    /\ nNodes = 3
    /\ mainPc = "join"
    /\ Len(links) = 3
    /\ Len(threads) = 6

\* C12 as claimed: a failed handshake of one link is reported and skipped:
\* the process keeps running.
C12_HandshakeIsolation ==
    failure = "handshake" => proc = "running"

\* C13 as claimed: main reports the failure of a relay task only after every
\* relay task has ended.
C13_JoinAll ==
    failure = "join" => \A k \in 1..Len(threads) : threads[k].st # "running"

\* C16 as claimed: with the controller unreachable the process keeps running
\* and the relay goes on under its fallback action.
C16_ArbitrationFallback ==
    ctl = "down" => (proc = "running" /\ failure = "none")

(* ========================================================= packet_client *)
(* PacketClient::send_packet as a function of its three arguments and of   *)
(* the controller being reachable.                                          *)

\* payloads and ports a caller passes (the ports of the tests and u32::MAX)
PcData == {<<>>} \cup {<<b>> : b \in Bytes}
PcPorts == {U32(BasePort), U32(BasePort + 1), U32Max}

\* the checks in an order that looks at the source port first
Validate_PortFirst(data, from, to) ==
    IF from = U32Max THEN "packet_from_port not set properly"
    ELSE IF data = <<>> THEN "Packet data is empty"
    ELSE IF to = U32Max THEN "packet_to_port not set properly"
    ELSE "ok"

\* the three early returns of send_packet, in the order of the code
Validate(data, from, to) ==
    IF data = <<>> THEN "Packet data is empty"
    ELSE IF from = U32Max THEN "packet_from_port not set properly"
    ELSE IF to = U32Max THEN "packet_to_port not set properly"
    ELSE "ok"

\* send_packet returns Err from one of its checks: no Packet is built
SendPacketInvalid(data, from, to) ==
    /\ Validate(data, from, to) # "ok"
    /\ call' = [data |-> data, from |-> from, to |-> to,
                res |-> Validate(data, from, to), req |-> FALSE]
    /\ UNCHANGED <<meshVars, proc, pc, relayVars, hsVars, topoVars, ctl, ctlReqs>>

\* the request reaches the controller and its PacketAck is returned
SendPacketOk(data, from, to) ==
    /\ Validate(data, from, to) = "ok"
    /\ ctl = "up"
    /\ ctlReqs < MaxCalls
    /\ ctlReqs' = ctlReqs + 1
    /\ call' = [data |-> data, from |-> from, to |-> to, res |-> "Ok", req |-> TRUE]
    /\ UNCHANGED <<meshVars, proc, pc, relayVars, hsVars, topoVars, ctl>>

\* self.client.send_packet(request).await? fails: the tonic Status is returned
SendPacketRpcErr(data, from, to) ==
    /\ Validate(data, from, to) = "ok"
    /\ ctl = "down"
    /\ call' = [data |-> data, from |-> from, to |-> to, res |-> "Status", req |-> TRUE]
    /\ UNCHANGED <<meshVars, proc, pc, relayVars, hsVars, topoVars, ctl, ctlReqs>>

\* the controller stops answering / answers again
CtlDown ==
    /\ ctl = "up"
    /\ ctl' = "down"
    /\ UNCHANGED <<meshVars, proc, pc, relayVars, hsVars, topoVars, ctlReqs, call>>

CtlUp ==
    /\ ctl = "down"
    /\ ctl' = "up"
    /\ UNCHANGED <<meshVars, proc, pc, relayVars, hsVars, topoVars, ctlReqs, call>>

PcNext ==
    \/ \E data \in PcData, from \in PcPorts, to \in PcPorts :
          \/ SendPacketInvalid(data, from, to)
          \/ SendPacketOk(data, from, to)
          \/ SendPacketRpcErr(data, from, to)
    \/ CtlDown
    \/ CtlUp

\* calls of send_packet on a client the process holds
PcSpec == Init /\ [][PcNext]_vars

\* C15: request validation. After a call of send_packet: an empty payload
\* gives "Packet data is empty"; otherwise a source port u32::MAX gives the
\* from_port error; otherwise a destination port u32::MAX gives the to_port
\* error; in these three cases no request is made and the controller
\* receives nothing; otherwise the request is made.
C15_RequestValidation ==
    [][ /\ call'.res # "none" =>
            /\ call'.data = <<>> =>
                  (call'.res = "Packet data is empty" /\ ~call'.req)
            /\ (call'.data # <<>> /\ call'.from = U32Max) =>
                  (call'.res = "packet_from_port not set properly" /\ ~call'.req)
            /\ (call'.data # <<>> /\ call'.from # U32Max /\ call'.to = U32Max) =>
                  (call'.res = "packet_to_port not set properly" /\ ~call'.req)
            /\ (call'.data # <<>> /\ call'.from # U32Max /\ call'.to # U32Max) =>
                  (call'.req /\ call'.res \in {"Ok", "Status"})
        /\ ctlReqs' # ctlReqs =>
            (call'.req /\ call'.data # <<>> /\ call'.from # U32Max /\ call'.to # U32Max)
      ]_vars

\* C15 witness: a call with an empty payload and both ports u32::MAX was
\* refused for its payload, after an earlier call was sent
C15_Witness ==
    /\ call.data = <<>>
    /\ call.from = U32Max
    /\ call.to = U32Max
    /\ call.res = "Packet data is empty"
    /\ ctlReqs = 1

\* C17 as claimed: a stream is returned as established only when a header
\* block ending in \r\n\r\n was received and parsed (hsCode is the status
\* code of that block, and 0 while no block has been found).
C17_ReadsToTerminator ==
    \A s \in Dirs : hsRet[s] => hsCode[s] # 0

\* the stream in hand answered 101 and bytes follow its header block
TrailingData(s) == s = hsIdx /\ hsCode[s] = SwitchingProtocols /\ hbuf # <<>>

\* C18 as claimed: bytes after the header block of a 101 response fail the
\* handshake of that link only: no stream is returned and the process keeps
\* running.
C18_TrailingData ==
    \A s \in Dirs : TrailingData(s) => (~hsRet[s] /\ proc = "running")

\* C19: counterpart identity. The stream for peer s is opened to the port
\* base_port + s, and the upgrade request written on it carries the public
\* key of the other peer; the loop of direction d reads from the stream of
\* peer d and writes to the stream of the other peer.
C19_CounterpartIdentity ==
    /\ \A s \in Dirs :
          /\ hsPort[s] # 0 => hsPort[s] = BasePort + peerOf[s]
          /\ hsKey[s] # "" => hsKey[s] = pubKey[3 - s]
          /\ hsKey[s] # "" => hsPort[s] # 0
    /\ \A d \in Dirs : From(d) = d /\ To(d) = 3 - d
    /\ pc[1] # "unspawned" => (hsRet[1] /\ hsRet[2])

\* C19 witness: both streams are established and the two loops are spawned
C19_Witness ==
    /\ hsPc = "spawned"
    /\ hsKey = <<"K2", "K1">>
    /\ hsPort = <<BasePort + 1, BasePort + 2>>

\* a frame whose first byte has bit 0x80 clear and a bit under 0xFC set
VersionFrame(f) == f # <<>> /\ ~IsCompressed(f[1]) /\ UnknownVersion(f[1])

\* C20: unknown version is a soft warning. A direction that reads a frame
\* with an unknown version does not fail on it: it keeps the frame, goes on
\* to the delay (delayed direction) or to the write, and what it then writes
\* to the destination is that frame, unchanged.
C20_VersionSoftWarning ==
    [][ \A d \in Dirs :
          /\ (Len(readLog'[d]) = Len(readLog[d]) + 1
                 /\ VersionFrame(readLog'[d][Len(readLog'[d])])) =>
                /\ buf'[d] = readLog'[d][Len(readLog'[d])]
                /\ pc'[d] = (IF peerOf[d] = DelayedPeer THEN "delay" ELSE "lock_to")
                /\ err'[d] = err[d]
                /\ proc' = "running"
          /\ (Len(out'[To(d)]) = Len(out[To(d)]) + 1 /\ VersionFrame(buf[d])) =>
                /\ out'[To(d)][Len(out'[To(d)])] = buf[d]
                /\ pc'[d] = "lock_from"
      ]_vars

\* C20 witness: both directions have written a frame with an unknown
\* version and are still running
C20_Witness ==
    \A d \in Dirs :
        /\ out[To(d)] # <<>>
        /\ VersionFrame(out[To(d)][1])
        /\ pc[d] # "panicked"
        /\ proc = "running"

\* the bytes of a sequence of chunks, in order
RECURSIVE Flat(_)
Flat(q) == IF q = <<>> THEN <<>> ELSE Head(q) \o Flat(Tail(q))

IsPrefix(a, b) == Len(a) <= Len(b) /\ a = Take(b, Len(a))

\* all bytes direction d has read from its source session, and those it
\* has written to its destination session
ReadBytes(d) == Flat(readLog[d])
WrittenBytes(d) == Flat(out[To(d)])

\* the k-th byte of a session's stream is the first byte of a message
MsgStart(k) == k % MsgLen = 1

\* no message direction d has read begins with a byte that has bit 0x80 set
NoCompressedMessage(d) ==
    \A k \in 1..Len(ReadBytes(d)) : MsgStart(k) => ~IsCompressed(ReadBytes(d)[k])

\* C21 as claimed: however the reads split the stream, a direction whose
\* messages all begin with an uncompressed byte is never stopped by the
\* compression inspection (a continuation chunk is not inspected), and the
\* bytes it has written are the bytes it has read, in order.
C21_StreamPreservation ==
    \A d \in Dirs :
        NoCompressedMessage(d) =>
            /\ err[d] # "panic: Received compressed message"
            /\ IsPrefix(WrittenBytes(d), ReadBytes(d))
            /\ (pc[d] = "lock_from" /\ proc = "running") => WrittenBytes(d) = ReadBytes(d)

\* the session mutexes direction d holds
Held(d) == {s \in Dirs : lock[s] = d}

\* direction d is suspended in lock().await on the mutex of session s
Waits(d, s) ==
    \/ pc[d] = "lock_from" /\ s = From(d)
    \/ pc[d] = "lock_to" /\ s = To(d)

\* C22: no lock cycle inside a link. A relay loop holds at most one session
\* mutex at a time and holds none while it waits for one (so never its
\* source mutex while it waits for its destination mutex), and the two
\* loops are never each waiting for a mutex the other holds.
C22_NoLockCycle ==
    /\ \A d \in Dirs : Cardinality(Held(d)) <= 1
    /\ \A d \in Dirs, s \in Dirs : Waits(d, s) => Held(d) = {}
    /\ ~(\A d \in Dirs : \E s \in Dirs : Waits(d, s) /\ lock[s] = Other(d))

\* C22 witness: both loops have read a frame and each is at lock().await on
\* the session the other one reads from
C22_Witness ==
    /\ \A d \in Dirs : pc[d] = "lock_to" /\ buf[d] # <<>>
    /\ \A s \in Dirs : lock[s] = 0
    /\ proc = "running"

(* ================================================================= mesh *)
(* The relay tasks of all links of a network, running from the moment     *)
(* handle_peer_connections spawns them while main goes on with the pair   *)
(* loop. A frame is <<x, n>>: the n-th frame sent in the network, sent on  *)
(* session x. The mutexes and the delay of a task are those of Spec; here  *)
(* a task is its read and its write; a task that has panicked takes no    *)
(* step any more, which is a task that is never scheduled again.           *)

\* the session the task of handle h reads: thread_1 reads ssl_stream_1,
\* thread_2 reads ssl_stream_2
MeshFrom(h) == <<h.link, h.dir>>

\* a task that writes to a stream of another pair that leads to the same node
MeshTo_ByNode(h) ==
    LET node == h.link[Other(h.dir)]
        others == {x \in MeshSess : x[1] # h.link /\ x[1][x[2]] = node /\ x[1] \in Range(links)}
    IN  IF others # {} THEN CHOOSE x \in others : TRUE ELSE <<h.link, Other(h.dir)>>

\* the session the task of handle h writes: the other stream of its pair
MeshTo(h) == <<h.link, Other(h.dir)>>

\* node x[1][x[2]] sends a frame on its session x, once connect_peers has
\* returned for the pair x[1]
MeshNodeSend(x) ==
    /\ proc = "running"
    /\ x[1] \in Range(links)
    /\ mSent < MaxMeshSent
    /\ mSent' = mSent + 1
    /\ mIn' = [mIn EXCEPT ![x] = Append(@, <<x, mSent + 1>>)]
    /\ UNCHANGED <<proc, pc, relayVars, hsVars, ctlVars, topoVars, mOut, mBuf>>

\* handle_message of the task behind handle k: the read from its source
MeshRead(k) ==
    /\ proc = "running"
    /\ k \in 1..Len(threads)
    /\ threads[k].st = "running"
    /\ LET x == MeshFrom(threads[k]) IN
        /\ mBuf[x] = <<>>
        /\ mIn[x] # <<>>
        /\ mBuf' = [mBuf EXCEPT ![x] = <<Head(mIn[x])>>]
        /\ mIn' = [mIn EXCEPT ![x] = Tail(@)]
    /\ UNCHANGED <<proc, pc, relayVars, hsVars, ctlVars, topoVars, mOut, mSent>>

\* handle_message of the task behind handle k: the write to its destination
MeshWrite(k) ==
    /\ proc = "running"
    /\ k \in 1..Len(threads)
    /\ threads[k].st = "running"
    /\ LET x == MeshFrom(threads[k]) IN
        /\ mBuf[x] # <<>>
        /\ mOut' = [mOut EXCEPT ![MeshTo(threads[k])] = Append(@, mBuf[x][1])]
        /\ mBuf' = [mBuf EXCEPT ![x] = <<>>]
    /\ UNCHANGED <<proc, pc, relayVars, hsVars, ctlVars, topoVars, mIn, mSent>>

MeshNext ==
    \/ ClientNewOk
    \/ ClientNewErr
    \/ ConnectOk
    \/ ConnectPanic
    \/ NextContainer
    \/ PairsDone
    \/ \E x \in MeshSess : MeshNodeSend(x)
    \/ \E k \in 1..(MaxNodes * (MaxNodes - 1)) : MeshRead(k)
    \/ \E k \in 1..(MaxNodes * (MaxNodes - 1)) : MeshWrite(k)
    \/ JoinDone

\* main and the relay tasks of every link it has made
MeshSpec == TopoInit /\ [][MeshNext]_vars

\* C23: no cross-link leakage. A frame a task holds was sent on the session
\* that task reads, and every frame written to a session was sent on the
\* other session of the same link: no frame is ever written to a session of
\* another link, nor back to the session it came from.
C23_NoCrossLinkLeakage ==
    \A x \in MeshSess :
        /\ \A i \in 1..Len(mBuf[x]) : mBuf[x][i][1] = x
        /\ \A i \in 1..Len(mOut[x]) :
              /\ mOut[x][i][1][1] = x[1]
              /\ mOut[x][i][1][2] = 3 - x[2]

\* C23 witness: in a network of three nodes, frames have been written on
\* sessions of two different links that lead to the same node
C23_Witness ==
    /\ nNodes = 3
    /\ \E x, y \in MeshSess :
          /\ x[1] # y[1]
          /\ x[1][x[2]] = y[1][y[2]]
          /\ mOut[x] # <<>>
          /\ mOut[y] # <<>>

====
